---- MODULE Spec2Model ----
(***************************************************************************)
(* A model of the gosip SIP stack: the transaction layer with its client   *)
(* transaction state machines over the mock transport layer of the         *)
(* transaction tests, and the Server on top of it (serve loop, request     *)
(* handlers, Request/Respond and Shutdown).                                *)
(***************************************************************************)
EXTENDS Integers, Sequences, FiniteSets, TLC

(***************************************************************************)
(* Bounds of the model.                                                    *)
(***************************************************************************)
\* client transactions ever created in one run
MaxTx == 2
\* responses the transport delivers to the transaction layer in one run
MaxIn == 2
\* requests the transaction layer emits on Requests() in one run
MaxReqIn == 1
\* handlers registered with OnRequest in one run
MaxHandlers == 2
\* calls of Server.Shutdown in one run
MaxShut == 2
\* responses passed to Server.Respond by its caller in one run
MaxResp == 1
MaxApi == 1
MaxCalls == 4
\* calls made on the connection in one run
MaxConnOps == 3
\* bytes written to the parser buffer in one run
MaxBytes == 4
\* largest n of NextChunk(n)
MaxChunk == 2
\* calls of NextLine and NextChunk in one run
MaxPbCalls == 2
\* worker goroutines of a protocol
MaxWorkers == 2
\* messages and errors the workers send in one run
MaxSends == 2
\* calls of protocol.Stop in one run
MaxStops == 2

(***************************************************************************)
(* Messages.                                                               *)
(***************************************************************************)
\* sip.RequestMethod: the methods of the model
Methods == {"INVITE", "ACK", "CANCEL", "OPTIONS", "REGISTER"}

\* the methods of the requests sent
ClientMethods == {"INVITE", "OPTIONS"}

\* the goroutines that call Server.Shutdown
ShutCallers == {"s1", "s2"}

\* the functions registered as request handlers
Handlers == {"h1", "h2"}

\* 100 Trying, 200 OK, 400 Bad Request
Statuses == {100, 200, 400}

NoHeaders == <<>>

Request(method, branch, hdrs) ==
    [kind |-> "request", method |-> method, branch |-> branch, hdrs |-> hdrs]

Response(status, branch, cseq, hdrs) ==
    [kind |-> "response", status |-> status, branch |-> branch,
     cseq |-> cseq, hdrs |-> hdrs]

\* no message: a nil sip.Message
NoMessage == [kind |-> "none"]

IsRequest(m) == m.kind = "request"

IsResponse(m) == m.kind = "response"

IsProvisional(res) == res.status < 200

IsSuccess(res) == res.status >= 200 /\ res.status < 300

IsFailure(res) == res.status >= 300

\* the requests a caller passes to Layer.Request
UserRequests == {Request(m, "b1", NoHeaders) : m \in ClientMethods}

\* the responses the transport delivers
WireResponses ==
    {Response(s, "b1", "INVITE", NoHeaders) : s \in Statuses}
        \cup {Response(200, "b1", "OPTIONS", NoHeaders),
              Response(200, "b2", "INVITE", NoHeaders)}

(***************************************************************************)
(* State.                                                                  *)
(***************************************************************************)
VARIABLES
    \* transaction layer
    txs,            \* every client transaction created so far, in creation order
    lastCall,       \* the last Layer.Request call: its request and what it returned
    txlCancels,     \* calls of Layer.Cancel so far
    txlDone,        \* Layer.Done fired
    txlResponses,   \* the Responses() stream: unmatched responses not yet consumed
    txlErrors,      \* the Errors() stream: errors not yet consumed
    nIn,            \* responses delivered by the transport so far
    \* mock transport layer
    OutMsgs,        \* messages passed to MockTransportLayer.Send, in order
    \* transport layer under the server
    tpCancels,      \* calls of the transport layer's Cancel so far
    tpDone,         \* the transport layer's Done fired
    \* transaction layer, towards the server
    txlRequests,    \* the Requests() stream: requests not yet consumed
    nReqIn,         \* requests emitted on Requests() so far
    txlResponded,   \* the responses passed to Layer.Respond, in order
    \* server
    srvLog,         \* how many warnings and errors the server logged
    inShutdown,     \* Server.inShutdown
    hwg,            \* the counter of the wait group Server.hwg
    requestHandlers,\* Server.requestHandlers: method -> handlers, in order
    servePc,        \* where the serve loop is
    serveReq,       \* the request the serve loop received and has yet to dispatch
    hgs,            \* the handleRequest goroutines started so far
    shutPc,         \* where each caller of Shutdown is
    nShut,          \* calls of Shutdown so far
    apiPc,          \* where the caller of Request/Respond is
    apiMsg,         \* the message of the call in progress
    apiResult,      \* what the last finished Request/Respond call returned
    nApi,           \* Request/Respond calls made so far
    connBase,       \* the socket a connection wraps (net.Conn)
    connObj,        \* the connection NewConnection built, or NoConnection
    connPc,         \* where each caller of the connection is
    connRet,        \* what each caller's last call on the connection returned
    nConnOps,       \* calls made on the connection so far
    pbPipe,         \* io.Pipe: the bytes of the Write in progress not yet read
    pbReader,       \* bufio.Reader: the bytes buffered and not yet handed out
    pbClosed,       \* whether the pipe's read end is closed
    pbCall,         \* the NextLine/NextChunk call in progress and its locals
    pbRet,          \* what the last finished NextLine/NextChunk call returned
    pbWritten,      \* every byte handed to Write so far, in order
    pbConsumed,     \* how many bytes the calls have taken out of the reader
    nPbCalls,       \* NextLine/NextChunk calls made so far
    prStop,         \* protocol.stop: the values in the channel's buffer
    prWg,           \* protocol.wg: the wait group's counter
    prOutput,       \* protocol.output: "open" or "closed"
    prErrs,         \* protocol.errs: "open" or "closed"
    prWorkers,      \* where each worker goroutine of the protocol is
    prPc,           \* where the caller of protocol.Stop is
    prOnStop,       \* calls of the onStop callback so far
    prSent,         \* what the workers sent: the channel and its state then
    nStops          \* calls of protocol.Stop so far

txVars == <<txs, lastCall, txlCancels, txlDone, txlResponses, txlErrors, nIn>>

tpVars == <<OutMsgs>>

tpcVars == <<tpCancels, tpDone>>

reqVars == <<txlRequests, nReqIn>>

hVars == <<hwg, hgs>>

serveVars == <<servePc, serveReq>>

shutVars == <<inShutdown, shutPc, nShut>>

apiVars == <<apiPc, apiMsg, apiResult, nApi>>

srvVars == <<tpcVars, reqVars, txlResponded, srvLog, requestHandlers, hVars,
             serveVars, shutVars, apiVars>>

\* the transaction layer, the mock transport and the server
coreVars == <<txVars, tpVars, srvVars>>

connVars == <<connBase, connObj, connPc, connRet, nConnOps>>

\* a connection of the transport layer
pbVars == <<pbPipe, pbReader, pbClosed, pbCall, pbRet, pbWritten, pbConsumed, nPbCalls>>
prVars == <<prStop, prWg, prOutput, prErrs, prWorkers, prPc, prOnStop, prSent, nStops>>
ioVars == <<connVars, pbVars, prVars>>

vars == <<coreVars, ioVars>>

(***************************************************************************)
(* Transaction keys.                                                       *)
(***************************************************************************)
\* ACK is folded into INVITE
KeyMethod(method) == IF method = "ACK" THEN "INVITE" ELSE method

MakeClientTxKey(msg) ==
    IF IsRequest(msg)
    THEN <<msg.branch, KeyMethod(msg.method)>>
    ELSE <<msg.branch, KeyMethod(msg.cseq)>>

(***************************************************************************)
(* Client transactions.                                                    *)
(***************************************************************************)
\* a step of a transaction's history: a message sent to the transport, a
\* response received from it, a response delivered on the response channel;
\* st is the state the transaction was in
Event(ev, msg, st) == [ev |-> ev, msg |-> msg, st |-> st]

IsInviteTx(tx) == tx.origin.method = "INVITE"

InitialState(req) == IF req.method = "INVITE" THEN "Calling" ELSE "Trying"

NewClientTx(req) ==
    [key    |-> MakeClientTxKey(req),
     origin |-> req,
     state  |-> InitialState(req),
     hist   |-> <<Event("send", req, InitialState(req))>>,
     closed |-> FALSE,
     err    |-> "none"]

IsLive(tx) == tx.state # "Terminated"

LiveIndexes == {i \in 1..Len(txs) : IsLive(txs[i])}

\* the live transactions a message's key selects
Matching(msg) ==
    {i \in LiveIndexes :
        /\ txs[i].key = MakeClientTxKey(msg)
        /\ IsResponse(msg) => msg.cseq = txs[i].origin.method}

\* the ACK a transaction generates for a 3xx-6xx final response
AckFor(tx) == Request("ACK", tx.origin.branch, NoHeaders)

Received(tx) == SelectSeq(tx.hist, LAMBDA e : e.ev = "recv")

Delivered(tx) == SelectSeq(tx.hist, LAMBDA e : e.ev = "deliver")

(***************************************************************************)
(* Mock transport layer.                                                   *)
(***************************************************************************)
\* a Send that loses the message
MockSendNothing(out, msg) == out

\* a Send that puts the message on OutMsgs twice
MockSendTwice(out, msg) == Append(Append(out, msg), msg)

\* MockTransportLayer.Send: the message goes out on OutMsgs, unchanged, and
\* Send returns nil
MockSend(out, msg) == Append(out, msg)

(***************************************************************************)
(* Client transaction state machines.  The mock transport is reliable and  *)
(* its Send never fails, so the retransmission timers A and E are never    *)
(* armed and no transport error reaches a transaction.                     *)
(***************************************************************************)
Active(tx) == tx.state \in {"Calling", "Trying", "Proceeding"}

Terminate(tx, err) ==
    [tx EXCEPT !.state = "Terminated", !.closed = TRUE, !.err = err]

\* INVITE client transaction: what a matched response does to it
InviteOnResponse(tx, res) ==
    LET h == Append(tx.hist, Event("recv", res, tx.state))
        deliver == Event("deliver", res, tx.state)
        ack == Event("send", AckFor(tx), tx.state)
    IN  CASE Active(tx) /\ IsProvisional(res) ->
                [tx EXCEPT !.state = "Proceeding", !.hist = Append(h, deliver)]
          [] Active(tx) /\ IsSuccess(res) ->
                [Terminate(tx, "none") EXCEPT !.hist = Append(h, deliver)]
          [] Active(tx) /\ IsFailure(res) ->
                [tx EXCEPT !.state = "Completed", !.hist = h \o <<deliver, ack>>]
          [] tx.state = "Completed" /\ IsFailure(res) ->
                [tx EXCEPT !.hist = Append(h, ack)]
          [] OTHER ->
                [tx EXCEPT !.hist = h]

\* non-INVITE client transaction: what a matched response does to it
NonInviteOnResponse(tx, res) ==
    LET h == Append(tx.hist, Event("recv", res, tx.state))
        deliver == Event("deliver", res, tx.state)
    IN  CASE Active(tx) /\ IsProvisional(res) ->
                [tx EXCEPT !.state = "Proceeding", !.hist = Append(h, deliver)]
          [] Active(tx) /\ ~IsProvisional(res) ->
                [tx EXCEPT !.state = "Completed", !.hist = Append(h, deliver)]
          [] OTHER ->
                [tx EXCEPT !.hist = h]

\* a transaction that keeps provisional responses to itself
OnResponseNoProvisional(tx, res) ==
    LET new == IF IsInviteTx(tx)
               THEN InviteOnResponse(tx, res)
               ELSE NonInviteOnResponse(tx, res)
    IN  [new EXCEPT !.hist =
            SelectSeq(@, LAMBDA e : e.ev # "deliver" \/ ~IsProvisional(e.msg))]

OnResponse(tx, res) ==
    IF IsInviteTx(tx) THEN InviteOnResponse(tx, res) ELSE NonInviteOnResponse(tx, res)

\* the messages a step of a transaction handed to the transport
NewSends(old, new) ==
    SelectSeq(SubSeq(new.hist, Len(old.hist) + 1, Len(new.hist)),
              LAMBDA e : e.ev = "send")

SendAll(out, events) ==
    IF events = <<>> THEN out ELSE MockSend(out, events[1].msg)

(***************************************************************************)
(* Transaction layer.                                                      *)
(***************************************************************************)
TxlCancelled == txlCancels > 0

\* a Layer.Request that does not look for a live transaction with the key
RequestResultNoDuplicateCheck(req) ==
    IF TxlCancelled THEN "Cancelled" ELSE "ok"

\* Layer.Request: what it returns for req
RequestResult(req) ==
    IF TxlCancelled THEN "Cancelled"
    ELSE IF \E i \in LiveIndexes : txs[i].key = MakeClientTxKey(req)
         THEN "DuplicateKey"
         ELSE "ok"

\* Layer.Request(req): register a client transaction and start it, or fail
TxlRequest(req) ==
    LET result == RequestResult(req)
    IN  /\ lastCall' = [req |-> req, result |-> result]
        /\ IF result = "ok"
           THEN /\ txs' = Append(txs, NewClientTx(req))
                /\ OutMsgs' = MockSend(OutMsgs, req)
           ELSE UNCHANGED <<txs, OutMsgs>>
        /\ UNCHANGED <<txlCancels, txlDone, txlResponses, txlErrors, nIn>>

\* a caller of the transaction layer (the transaction tests) calls Request
LayerRequest(req) ==
    /\ Len(txs) < MaxTx
    /\ TxlRequest(req)
    /\ UNCHANGED srvVars
    /\ UNCHANGED ioVars

\* the transport delivers a response: it goes to the transaction it matches,
\* or to the Responses() stream
TxlReceive(res) ==
    /\ ~txlDone
    /\ nIn < MaxIn
    /\ nIn' = nIn + 1
    /\ IF Matching(res) # {}
       THEN LET i == CHOOSE j \in Matching(res) : \A k \in Matching(res) : j <= k
                new == OnResponse(txs[i], res)
            IN  /\ txs' = [txs EXCEPT ![i] = new]
                /\ OutMsgs' = SendAll(OutMsgs, NewSends(txs[i], new))
                /\ UNCHANGED txlResponses
       ELSE /\ txlResponses' = Append(txlResponses, res)
            /\ UNCHANGED <<txs, OutMsgs>>
    /\ UNCHANGED <<lastCall, txlCancels, txlDone, txlErrors, srvVars>>
    /\ UNCHANGED ioVars

\* timer B (INVITE) or F (non-INVITE): no final response in time
TimerTimeout(i) ==
    /\ i \in LiveIndexes
    /\ IF IsInviteTx(txs[i]) THEN txs[i].state = "Calling" ELSE Active(txs[i])
    /\ txs' = [txs EXCEPT ![i] = Terminate(@, "Timeout")]
    /\ txlErrors' = Append(txlErrors, "Timeout")
    /\ UNCHANGED <<lastCall, txlCancels, txlDone, txlResponses, nIn, OutMsgs,
                   srvVars>>
    /\ UNCHANGED ioVars

\* timer D (INVITE) or K (non-INVITE): the Completed state ends
TimerCompleted(i) ==
    /\ i \in LiveIndexes
    /\ txs[i].state = "Completed"
    /\ txs' = [txs EXCEPT ![i] = Terminate(@, "none")]
    /\ UNCHANGED <<lastCall, txlCancels, txlDone, txlResponses, txlErrors, nIn,
                   OutMsgs, srvVars>>
    /\ UNCHANGED ioVars

\* Layer.Cancel()
TxlCancel ==
    /\ txlCancels' = txlCancels + 1
    /\ UNCHANGED <<txs, lastCall, txlDone, txlResponses, txlErrors, nIn>>

\* the transaction tests cancel the layer once (AfterEach)
LayerCancel ==
    /\ txlCancels = 0
    /\ TxlCancel
    /\ UNCHANGED <<OutMsgs, srvVars>>
    /\ UNCHANGED ioVars

\* a cancelled transaction that terminates and leaves its response channel
\* open
CancelTxLeavesOpen(i) ==
    /\ TxlCancelled
    /\ i \in LiveIndexes
    /\ txs' = [txs EXCEPT ![i].state = "Terminated", ![i].err = "Cancelled"]
    /\ UNCHANGED <<lastCall, txlCancels, txlDone, txlResponses, txlErrors, nIn,
                   OutMsgs, srvVars>>
    /\ UNCHANGED ioVars

\* cancellation reaches a transaction
CancelTx(i) ==
    /\ TxlCancelled
    /\ i \in LiveIndexes
    /\ txs' = [txs EXCEPT ![i] = Terminate(@, "Cancelled")]
    /\ UNCHANGED <<lastCall, txlCancels, txlDone, txlResponses, txlErrors, nIn,
                   OutMsgs, srvVars>>
    /\ UNCHANGED ioVars

\* every transaction is gone: Layer.Done fires
LayerDone ==
    /\ TxlCancelled
    /\ ~txlDone
    /\ LiveIndexes = {}
    /\ txlDone' = TRUE
    /\ UNCHANGED <<txs, lastCall, txlCancels, txlResponses, txlErrors, nIn,
                   OutMsgs, srvVars>>
    /\ UNCHANGED ioVars

(***************************************************************************)
(* Server: the serve loop's branches for the transaction layer's streams.  *)
(***************************************************************************)
\* a serve loop that answers a stray response
ServeResponseAnswers ==
    /\ servePc = "select"
    /\ txlResponses # <<>>
    /\ txlResponses' = Tail(txlResponses)
    /\ txlResponded' = Append(txlResponded, Head(txlResponses))
    /\ srvLog' = [srvLog EXCEPT !.warn = @ + 1]
    /\ UNCHANGED <<txs, lastCall, txlCancels, txlDone, txlErrors, nIn, OutMsgs>>
    /\ UNCHANGED <<tpcVars, reqVars, requestHandlers, hVars, serveVars, shutVars,
                   apiVars>>
    /\ UNCHANGED ioVars

\* case res := <-srv.tx.Responses(): a warning is logged
ServeResponse ==
    /\ servePc = "select"
    /\ txlResponses # <<>>
    /\ txlResponses' = Tail(txlResponses)
    /\ srvLog' = [srvLog EXCEPT !.warn = @ + 1]
    /\ UNCHANGED <<txs, lastCall, txlCancels, txlDone, txlErrors, nIn, OutMsgs>>
    /\ UNCHANGED <<tpcVars, reqVars, txlResponded, requestHandlers, hVars,
                   serveVars, shutVars, apiVars>>
    /\ UNCHANGED ioVars

\* case err := <-srv.tx.Errors(): an error is logged
ServeTxError ==
    /\ servePc = "select"
    /\ txlErrors # <<>>
    /\ txlErrors' = Tail(txlErrors)
    /\ srvLog' = [srvLog EXCEPT !.error = @ + 1]
    /\ UNCHANGED <<txs, lastCall, txlCancels, txlDone, txlResponses, nIn, OutMsgs>>
    /\ UNCHANGED <<tpcVars, reqVars, txlResponded, requestHandlers, hVars,
                   serveVars, shutVars, apiVars>>
    /\ UNCHANGED ioVars

(***************************************************************************)
(* Connection: the wrapper of the transport layer around a net.Conn.       *)
(***************************************************************************)
\* the goroutines that use the connection
ConnCallers == {"c1", "c2"}

\* a nil net.Addr
NilAddr == "nil"

\* the address a datagram came from
PeerAddr == "10.0.0.9:5060"

\* fmt.Sprintf("%v", addr)
AddrString(addr) == IF addr = NilAddr THEN "<nil>" ELSE addr

\* the sockets a connection is built from: an unconnected UDP socket (a
\* net.PacketConn) and a TCP socket
BaseSockets ==
    {[kind |-> "udp", laddr |-> "10.0.0.1:5060", raddr |-> NilAddr],
     [kind |-> "tcp", laddr |-> "10.0.0.1:5060", raddr |-> "10.0.0.2:5060"]}

\* a socket as opened: not closed, no deadline set, nobody writing
OpenSocket(b) ==
    [kind |-> b.kind, laddr |-> b.laddr, raddr |-> b.raddr, closed |-> FALSE,
     closes |-> 0, writers |-> {}, rdl |-> FALSE, wdl |-> FALSE]

NoSocket == [kind |-> "none"]

NoConnection == [ptr |-> "nil"]

\* case net.PacketConn of NewConnection's type switch
IsPacketConn(base) == base.kind = "udp"

NewConnection(base) ==
    [ptr |-> "conn", laddr |-> base.laddr, raddr |-> base.raddr,
     streamed |-> ~IsPacketConn(base)]

\* strings.ToUpper, on the network names
ToUpper(str) ==
    CASE str = "udp" -> "UDP"
      [] str = "tcp" -> "TCP"
      [] OTHER -> str

Streamed(conn) == conn.streamed

\* connection.Network: strings.ToUpper(conn.baseConn.LocalAddr().Network())
Network(conn, base) == ToUpper(base.kind)

LocalAddr(conn) == conn.laddr

RemoteAddr(conn) == conn.raddr

\* connection.String
ConnString(conn, base) ==
    <<"Connection", conn.ptr, Network(conn, base), AddrString(LocalAddr(conn)),
      AddrString(RemoteAddr(conn))>>

NoError == [kind |-> "nil"]

ConnectionError(cause, op, net, raddr, laddr, connPtr) ==
    [kind |-> "ConnectionError", cause |-> cause, op |-> op, net |-> net,
     raddr |-> raddr, laddr |-> laddr, conn |-> connPtr]

\* what a call returned: base is what the socket's own call returned ("ok"
\* or the cause of the failure), raddr the peer address ReadFrom returned
ConnResult(op, base, raddr, err) ==
    [op |-> op, base |-> base, raddr |-> raddr, err |-> err]

NoResult == [op |-> "none"]

\* what a socket call returns: an I/O call on an open socket succeeds or
\* times out, any call on a closed socket fails
BaseOutcomes(base) == IF base.closed THEN {"closed"} ELSE {"ok", "timeout"}

ConnIdle(c) ==
    /\ connObj # NoConnection
    /\ connPc[c] = "idle"
    /\ nConnOps < MaxConnOps
    /\ nConnOps' = nConnOps + 1

\* NewConnection(baseConn)
ConnNew(b) ==
    /\ connObj = NoConnection
    /\ connBase' = OpenSocket(b)
    /\ connObj' = NewConnection(OpenSocket(b))
    /\ UNCHANGED <<connPc, connRet, nConnOps, coreVars, pbVars, prVars>>

\* connection.Read
ConnRead(c, outcome) ==
    /\ ConnIdle(c)
    /\ outcome \in BaseOutcomes(connBase)
    /\ connBase' = [connBase EXCEPT !.rdl = TRUE]
    /\ connRet' = [connRet EXCEPT ![c] =
          ConnResult("Read", outcome, NilAddr,
              IF outcome # "ok"
              THEN ConnectionError(outcome, "read", Network(connObj, connBase),
                       AddrString(RemoteAddr(connObj)),
                       AddrString(LocalAddr(connObj)),
                       ConnString(connObj, connBase))
              ELSE NoError)]
    /\ UNCHANGED <<connObj, connPc, coreVars, pbVars, prVars>>

\* a ReadFrom that keeps the datagram's peer as the connection's remote
\* address
ConnReadFromStoresPeer(c, outcome) ==
    /\ ConnIdle(c)
    /\ IsPacketConn(connBase)
    /\ outcome \in BaseOutcomes(connBase)
    /\ connBase' = [connBase EXCEPT !.rdl = TRUE]
    /\ connObj' = IF outcome = "ok" THEN [connObj EXCEPT !.raddr = PeerAddr]
                  ELSE connObj
    /\ connRet' = [connRet EXCEPT ![c] =
          ConnResult("ReadFrom", outcome,
              IF outcome = "ok" THEN PeerAddr ELSE NilAddr, NoError)]
    /\ UNCHANGED <<connPc, coreVars, pbVars, prVars>>

\* connection.ReadFrom, on a packet socket
ConnReadFrom(c, outcome) ==
    /\ ConnIdle(c)
    /\ IsPacketConn(connBase)
    /\ outcome \in BaseOutcomes(connBase)
    /\ connBase' = [connBase EXCEPT !.rdl = TRUE]
    /\ LET raddr == IF outcome = "ok" THEN PeerAddr ELSE NilAddr
       IN  connRet' = [connRet EXCEPT ![c] =
              ConnResult("ReadFrom", outcome, raddr,
                  IF outcome # "ok"
                  THEN ConnectionError(outcome, "read", Network(connObj, connBase),
                           AddrString(raddr),
                           AddrString(LocalAddr(connObj)),
                           ConnString(connObj, connBase))
                  ELSE NoError)]
    /\ UNCHANGED <<connObj, connPc, coreVars, pbVars, prVars>>

\* connection.Write and connection.WriteTo, up to the call of the socket's
\* Write or WriteTo: the write deadline is set and the socket's call begins
ConnWriteBegin(c, op) ==
    /\ ConnIdle(c)
    /\ op = "WriteTo" => IsPacketConn(connBase)
    /\ connBase' = [connBase EXCEPT !.wdl = TRUE, !.writers = @ \cup {c}]
    /\ connPc' = [connPc EXCEPT ![c] = op]
    /\ UNCHANGED <<connObj, connRet, coreVars, pbVars, prVars>>

\* the remote address a failed write reports: the connection's for Write,
\* the destination's for WriteTo
WriteRemote(op) == IF op = "WriteTo" THEN PeerAddr ELSE RemoteAddr(connObj)

\* connection.Write and connection.WriteTo, from the return of the socket's
\* call
ConnWriteEnd(c, outcome) ==
    /\ connPc[c] \in {"Write", "WriteTo"}
    /\ outcome \in BaseOutcomes(connBase)
    /\ connBase' = [connBase EXCEPT !.writers = @ \ {c}]
    /\ connPc' = [connPc EXCEPT ![c] = "idle"]
    /\ connRet' = [connRet EXCEPT ![c] =
          ConnResult(connPc[c], outcome, NilAddr,
              IF outcome # "ok"
              THEN ConnectionError(outcome, "write", Network(connObj, connBase),
                       AddrString(WriteRemote(connPc[c])),
                       AddrString(LocalAddr(connObj)),
                       ConnString(connObj, connBase))
              ELSE NoError)]
    /\ UNCHANGED <<connObj, nConnOps, coreVars, pbVars, prVars>>

\* connection.Close
ConnClose(c) ==
    /\ ConnIdle(c)
    /\ LET outcome == IF connBase.closed THEN "closed" ELSE "ok"
       IN  /\ connBase' = [connBase EXCEPT !.closed = TRUE, !.closes = @ + 1]
           /\ connRet' = [connRet EXCEPT ![c] =
                 ConnResult("Close", outcome, NilAddr,
                     IF outcome # "ok"
                     THEN ConnectionError(outcome, "close",
                              Network(connObj, connBase), "", "",
                              ConnString(connObj, connBase))
                     ELSE NoError)]
    /\ UNCHANGED <<connObj, connPc, coreVars, pbVars, prVars>>

InitConn ==
    /\ connBase = NoSocket
    /\ connObj = NoConnection
    /\ connPc = [c \in ConnCallers |-> "idle"]
    /\ connRet = [c \in ConnCallers |-> NoResult]
    /\ nConnOps = 0

NextConn ==
    \/ \E b \in BaseSockets : ConnNew(b)
    \/ \E c \in ConnCallers, o \in {"ok", "timeout", "closed"} : ConnRead(c, o)
    \/ \E c \in ConnCallers, o \in {"ok", "timeout", "closed"} : ConnReadFrom(c, o)
    \/ \E c \in ConnCallers, op \in {"Write", "WriteTo"} : ConnWriteBegin(c, op)
    \/ \E c \in ConnCallers, o \in {"ok", "timeout", "closed"} : ConnWriteEnd(c, o)
    \/ \E c \in ConnCallers : ConnClose(c)

(***************************************************************************)
(* parserBuffer: an io.Pipe written by Write and read through a            *)
(* bufio.Reader by NextLine and NextChunk.                                 *)
(***************************************************************************)
CR == "\r"

LF == "\n"

\* the bytes written in the model
Bytes == {"a", CR, LF}

\* the byte sequences of length 1..n
RECURSIVE ByteSeqs(_)
ByteSeqs(n) ==
    IF n = 0 THEN {}
    ELSE LET shorter == ByteSeqs(n - 1)
         IN  {<<b>> : b \in Bytes} \cup shorter
                 \cup {Append(d, b) : d \in shorter, b \in Bytes}

Min(a, b) == IF a < b THEN a ELSE b

\* bytes.IndexByte(data, delim) + 1, 0 when delim is not in data
IndexByte(data, delim) ==
    IF \E i \in 1..Len(data) : data[i] = delim
    THEN CHOOSE i \in 1..Len(data) :
             data[i] = delim /\ \A j \in 1..(i - 1) : data[j] # delim
    ELSE 0

Drop(data, n) == SubSeq(data, n + 1, Len(data))

NoCall == [pc |-> "idle"]

NoReturn == [op |-> "none"]

\* the named results (response, err) of a call that has ended, with the
\* call's argument, the offset of the first byte the call could read, the
\* offset after the last byte it took, and whether Stop had been called
\* before the call
PbReturn(call, response, err, end) ==
    [op |-> call.op, n |-> call.n, response |-> response, err |-> err,
     start |-> call.start, end |-> end, stopped |-> call.stopped]

\* io.PipeWriter.Write: hands the data to the pipe and blocks until a reader
\* took all of it
PbWrite(data) ==
    /\ ~pbClosed
    /\ pbPipe = <<>>
    /\ Len(pbWritten) + Len(data) <= MaxBytes
    /\ pbPipe' = data
    /\ pbWritten' = pbWritten \o data
    /\ UNCHANGED <<pbReader, pbClosed, pbCall, pbRet, pbConsumed, nPbCalls,
                   coreVars, connVars, prVars>>

\* parserBuffer.Stop: pipeReader.Close fails the Write in progress and
\* every later Read of the pipe
PbStop ==
    /\ ~pbClosed
    /\ pbClosed' = TRUE
    /\ pbPipe' = <<>>
    /\ UNCHANGED <<pbReader, pbCall, pbRet, pbWritten, pbConsumed, nPbCalls,
                   coreVars, connVars, prVars>>

\* whether the call in progress needs bytes the bufio.Reader does not hold
NeedsData ==
    CASE pbCall.pc = "ReadString" -> IndexByte(pbReader, CR) = 0
      [] pbCall.pc \in {"ReadByte", "Read"} -> pbReader = <<>>
      [] OTHER -> FALSE

\* bufio.Reader's read of the pipe: PipeReader.Read copies the bytes of the
\* Write in progress into the reader's buffer
PbFill ==
    /\ NeedsData
    /\ pbPipe # <<>>
    /\ pbReader' = pbReader \o pbPipe
    /\ pbPipe' = <<>>
    /\ UNCHANGED <<pbClosed, pbCall, pbRet, pbWritten, pbConsumed, nPbCalls,
                   coreVars, connVars, prVars>>

\* the entry of NextLine or NextChunk
PbEnter(op, n, pc) ==
    /\ pbCall = NoCall
    /\ nPbCalls < MaxPbCalls
    /\ nPbCalls' = nPbCalls + 1
    /\ pbCall' = [pc |-> pc, op |-> op, n |-> n, buffer |-> <<>>,
                  start |-> pbConsumed, stopped |-> pbClosed]

\* parserBuffer.NextLine, to the first ReadString
PbNextLine ==
    /\ PbEnter("NextLine", 0, "ReadString")
    /\ UNCHANGED <<pbPipe, pbReader, pbClosed, pbRet, pbWritten, pbConsumed,
                   coreVars, connVars, prVars>>

\* the call in progress ends with the pipe's error: the named result
\* response is still empty
PbFail(taken) ==
    /\ pbRet' = PbReturn(pbCall, <<>>, "io.ErrClosedPipe", pbConsumed + taken)
    /\ pbConsumed' = pbConsumed + taken
    /\ pbReader' = Drop(pbReader, taken)
    /\ pbCall' = NoCall

\* data, err = pb.reader.ReadString('\r'); buffer.WriteString(data)
PbReadString ==
    /\ pbCall.pc = "ReadString"
    /\ LET i == IndexByte(pbReader, CR)
       IN  IF i > 0
           THEN /\ pbCall' = [pbCall EXCEPT
                       !.buffer = @ \o SubSeq(pbReader, 1, i), !.pc = "ReadByte"]
                /\ pbReader' = Drop(pbReader, i)
                /\ pbConsumed' = pbConsumed + i
                /\ UNCHANGED pbRet
           ELSE /\ pbPipe = <<>>
                /\ pbClosed
                /\ PbFail(Len(pbReader))
    /\ UNCHANGED <<pbPipe, pbClosed, pbWritten, nPbCalls, coreVars, connVars, prVars>>

\* b, err = pb.reader.ReadByte(); buffer.WriteByte(b); the return when b is
\* the LF
PbReadByte ==
    /\ pbCall.pc = "ReadByte"
    /\ IF pbReader # <<>>
       THEN LET b == Head(pbReader)
                buffer == Append(pbCall.buffer, b)
            IN  /\ pbReader' = Tail(pbReader)
                /\ pbConsumed' = pbConsumed + 1
                /\ IF b = LF
                   THEN /\ pbRet' = PbReturn(pbCall,
                                        SubSeq(buffer, 1, Len(buffer) - 2), "nil",
                                        pbConsumed + 1)
                        /\ pbCall' = NoCall
                   ELSE /\ pbCall' = [pbCall EXCEPT
                               !.buffer = buffer, !.pc = "ReadString"]
                        /\ UNCHANGED pbRet
       ELSE /\ pbPipe = <<>>
            /\ pbClosed
            /\ PbFail(0)
    /\ UNCHANGED <<pbPipe, pbClosed, pbWritten, nPbCalls, coreVars, connVars, prVars>>

\* parserBuffer.NextChunk(n), to the first Read: with n = 0 the loop is not
\* entered and the call returns at once
PbNextChunk(n) ==
    /\ pbCall = NoCall
    /\ nPbCalls < MaxPbCalls
    /\ nPbCalls' = nPbCalls + 1
    /\ pbCall' = IF n = 0 THEN NoCall
                 ELSE [pc |-> "Read", op |-> "NextChunk", n |-> n,
                       buffer |-> <<>>, start |-> pbConsumed,
                       stopped |-> pbClosed]
    /\ IF n = 0
       THEN pbRet' = [op |-> "NextChunk", n |-> 0, response |-> <<>>,
                      err |-> "nil", start |-> pbConsumed, end |-> pbConsumed,
                      stopped |-> pbClosed]
       ELSE UNCHANGED pbRet
    /\ UNCHANGED <<pbPipe, pbReader, pbClosed, pbWritten, pbConsumed,
                   coreVars, connVars, prVars>>

\* a Read that hands out everything the reader holds
ReadCountAll(room, held) == held

\* how many bytes bufio.Reader.Read copies into a slice with room for
\* room bytes when it holds held bytes
ReadCount(room, held) == Min(room, held)

\* read, err = pb.reader.Read(data[total:]); total += read; the return when
\* total = n
PbRead ==
    /\ pbCall.pc = "Read"
    /\ IF pbReader # <<>>
       THEN LET read == ReadCount(pbCall.n - Len(pbCall.buffer), Len(pbReader))
                data == pbCall.buffer \o SubSeq(pbReader, 1, read)
            IN  /\ pbReader' = Drop(pbReader, read)
                /\ pbConsumed' = pbConsumed + read
                /\ IF Len(data) >= pbCall.n
                   THEN /\ pbRet' = PbReturn(pbCall, data, "nil", pbConsumed + read)
                        /\ pbCall' = NoCall
                   ELSE /\ pbCall' = [pbCall EXCEPT !.buffer = data]
                        /\ UNCHANGED pbRet
       ELSE /\ pbPipe = <<>>
            /\ pbClosed
            /\ PbFail(0)
    /\ UNCHANGED <<pbPipe, pbClosed, pbWritten, nPbCalls, coreVars, connVars, prVars>>

\* newParserBuffer
InitPb ==
    /\ pbPipe = <<>>
    /\ pbReader = <<>>
    /\ pbClosed = FALSE
    /\ pbCall = NoCall
    /\ pbRet = NoReturn
    /\ pbWritten = <<>>
    /\ pbConsumed = 0
    /\ nPbCalls = 0

NextPb ==
    \/ \E data \in ByteSeqs(MaxBytes) : PbWrite(data)
    \/ PbStop
    \/ PbFill
    \/ PbNextLine
    \/ PbReadString
    \/ PbReadByte
    \/ \E n \in 0..MaxChunk : PbNextChunk(n)
    \/ PbRead

(***************************************************************************)
(* protocol: the base of the transport protocols, its worker goroutines    *)
(* and Stop.                                                               *)
(***************************************************************************)
Workers == 1..MaxWorkers

\* cap(pr.stop)
StopCap == 1

\* a worker is started: pr.wg.Add(1) and the go statement
PrStartWorker(w) ==
    /\ prWorkers[w] = "none"
    /\ nStops = 0
    /\ prWg' = prWg + 1
    /\ prWorkers' = [prWorkers EXCEPT ![w] = "running"]
    /\ UNCHANGED <<prStop, prOutput, prErrs, prPc, prOnStop, prSent, nStops,
                   coreVars, connVars, pbVars>>

\* the channel a worker sends on
ChanState(ch) == IF ch = "output" THEN prOutput ELSE prErrs

\* a running worker sends a message on pr.output or an error on pr.errs
PrWorkerSend(w, ch) ==
    /\ prWorkers[w] = "running"
    /\ Len(prSent) < MaxSends
    /\ prSent' = Append(prSent, [chan |-> ch, state |-> ChanState(ch)])
    /\ UNCHANGED <<prStop, prWg, prOutput, prErrs, prWorkers, prPc, prOnStop,
                   nStops, coreVars, connVars, pbVars>>

\* a running worker finishes, having received the value of pr.stop or not:
\* pr.wg.Done()
PrWorkerExit(w, signalled) ==
    /\ prWorkers[w] = "running"
    /\ signalled => prStop > 0
    /\ prStop' = IF signalled THEN prStop - 1 ELSE prStop
    /\ prWg' = prWg - 1
    /\ prWorkers' = [prWorkers EXCEPT ![w] = "done"]
    /\ UNCHANGED <<prOutput, prErrs, prPc, prOnStop, prSent, nStops,
                   coreVars, connVars, pbVars>>

\* protocol.Stop is called
PrStop ==
    /\ prPc \in {"idle", "returned"}
    /\ nStops < MaxStops
    /\ nStops' = nStops + 1
    /\ prPc' = "signal"
    /\ UNCHANGED <<prStop, prWg, prOutput, prErrs, prWorkers, prOnStop, prSent,
                   coreVars, connVars, pbVars>>

\* pr.stop <- true
PrSignal ==
    /\ prPc = "signal"
    /\ prStop < StopCap
    /\ prStop' = prStop + 1
    /\ prPc' = "wait"
    /\ UNCHANGED <<prWg, prOutput, prErrs, prWorkers, prOnStop, prSent, nStops,
                   coreVars, connVars, pbVars>>

\* a Stop that does not wait for the workers
PrWaitNot ==
    /\ prPc = "wait"
    /\ prPc' = "closeOutput"
    /\ UNCHANGED <<prStop, prWg, prOutput, prErrs, prWorkers, prOnStop, prSent,
                   nStops, coreVars, connVars, pbVars>>

\* pr.wg.Wait()
PrWait ==
    /\ prPc = "wait"
    /\ prWg = 0
    /\ prPc' = "closeOutput"
    /\ UNCHANGED <<prStop, prWg, prOutput, prErrs, prWorkers, prOnStop, prSent,
                   nStops, coreVars, connVars, pbVars>>

\* close(pr.output): the close of a closed channel panics
PrCloseOutput ==
    /\ prPc = "closeOutput"
    /\ IF prOutput = "closed"
       THEN prPc' = "panic" /\ UNCHANGED prOutput
       ELSE prPc' = "closeErrs" /\ prOutput' = "closed"
    /\ UNCHANGED <<prStop, prWg, prErrs, prWorkers, prOnStop, prSent, nStops,
                   coreVars, connVars, pbVars>>

\* close(pr.errs)
PrCloseErrs ==
    /\ prPc = "closeErrs"
    /\ IF prErrs = "closed"
       THEN prPc' = "panic" /\ UNCHANGED prErrs
       ELSE prPc' = "onStop" /\ prErrs' = "closed"
    /\ UNCHANGED <<prStop, prWg, prOutput, prWorkers, prOnStop, prSent, nStops,
                   coreVars, connVars, pbVars>>

\* pr.onStop() and the return of Stop
PrOnStop ==
    /\ prPc = "onStop"
    /\ prOnStop' = prOnStop + 1
    /\ prPc' = "returned"
    /\ UNCHANGED <<prStop, prWg, prOutput, prErrs, prWorkers, prSent, nStops,
                   coreVars, connVars, pbVars>>

\* protocol.init
InitPr ==
    /\ prStop = 0
    /\ prWg = 0
    /\ prOutput = "open"
    /\ prErrs = "open"
    /\ prWorkers = [w \in Workers |-> "none"]
    /\ prPc = "idle"
    /\ prOnStop = 0
    /\ prSent = <<>>
    /\ nStops = 0

NextPr ==
    \/ \E w \in Workers : PrStartWorker(w)
    \/ \E w \in Workers, ch \in {"output", "errs"} : PrWorkerSend(w, ch)
    \/ \E w \in Workers, signalled \in BOOLEAN : PrWorkerExit(w, signalled)
    \/ PrStop
    \/ PrSignal
    \/ PrWait
    \/ PrCloseOutput
    \/ PrCloseErrs
    \/ PrOnStop

(***************************************************************************)
(* The transaction layer over the mock transport, with the serve loop      *)
(* reading its streams.                                                    *)
(***************************************************************************)
InitTx ==
    /\ txs = <<>>
    /\ lastCall = [req |-> NoMessage, result |-> "none"]
    /\ txlCancels = 0
    /\ txlDone = FALSE
    /\ txlResponses = <<>>
    /\ txlErrors = <<>>
    /\ nIn = 0

InitTp == OutMsgs = <<>>

InitSrv ==
    /\ tpCancels = 0
    /\ tpDone = FALSE
    /\ txlRequests = <<>>
    /\ nReqIn = 0
    /\ txlResponded = <<>>
    /\ srvLog = [warn |-> 0, error |-> 0]
    /\ inShutdown = 0
    /\ hwg = 0
    /\ requestHandlers = [m \in Methods |-> <<>>]
    /\ servePc = "select"
    /\ serveReq = NoMessage
    /\ hgs = <<>>
    /\ shutPc = [p \in ShutCallers |-> "idle"]
    /\ nShut = 0
    /\ apiPc = "idle"
    /\ apiMsg = NoMessage
    /\ apiResult = [op |-> "none", err |-> "none"]
    /\ nApi = 0

Init == InitTx /\ InitTp /\ InitSrv /\ InitConn /\ InitPb /\ InitPr

NextTx ==
    \/ \E req \in UserRequests : LayerRequest(req)
    \/ \E res \in WireResponses : TxlReceive(res)
    \/ \E i \in 1..MaxTx : TimerTimeout(i)
    \/ \E i \in 1..MaxTx : TimerCompleted(i)
    \/ LayerCancel
    \/ \E i \in 1..MaxTx : CancelTx(i)
    \/ LayerDone
    \/ ServeResponse
    \/ ServeTxError

SpecTx == Init /\ [][NextTx]_vars

\* the goroutines of the transaction layer are scheduled: a cancelled
\* transaction terminates and the layer then signals Done
FairSpecTx ==
    /\ SpecTx
    /\ WF_vars(\E i \in 1..MaxTx : CancelTx(i))
    /\ WF_vars(LayerDone)

(***************************************************************************)
(* Properties of the transaction layer.                                    *)
(***************************************************************************)
Msgs(events) == [k \in 1..Len(events) |-> events[k].msg]

IsAck(msg) == IsRequest(msg) /\ msg.method = "ACK"

\* where in its history a transaction received a 3xx-6xx response
FailureRecvs(tx) ==
    {k \in 1..Len(tx.hist) : tx.hist[k].ev = "recv" /\ IsFailure(tx.hist[k].msg)}

\* where in its history a transaction handed an ACK to the transport
AckSends(tx) ==
    {k \in 1..Len(tx.hist) : tx.hist[k].ev = "send" /\ IsAck(tx.hist[k].msg)}

\* the event at k is an ACK with the branch of the transaction's INVITE
AckAt(tx, k) ==
    /\ k <= Len(tx.hist)
    /\ tx.hist[k].ev = "send"
    /\ IsAck(tx.hist[k].msg)
    /\ tx.hist[k].msg.branch = tx.origin.branch

\* the response received at k was delivered next, and then acknowledged
DeliveredThenAcked(tx, k) ==
    /\ k + 1 <= Len(tx.hist)
    /\ tx.hist[k + 1].ev = "deliver"
    /\ tx.hist[k + 1].msg = tx.hist[k].msg
    /\ AckAt(tx, k + 2)

RECURSIVE NumFailureRecvs(_)
NumFailureRecvs(n) ==
    IF n = 0 THEN 0
    ELSE NumFailureRecvs(n - 1)
         + (IF IsInviteTx(txs[n]) THEN Cardinality(FailureRecvs(txs[n])) ELSE 0)

\* C5 as stated: an INVITE client transaction delivers every 3xx-6xx
\* response it receives, the first one and each retransmission, and then
\* hands one ACK with the INVITE's branch to the transport; it sends no
\* other ACK.
C5_EveryFailureDeliveredThenAcked ==
    \A i \in 1..Len(txs) :
        IsInviteTx(txs[i]) =>
            /\ \A k \in FailureRecvs(txs[i]) : DeliveredThenAcked(txs[i], k)
            /\ AckSends(txs[i]) = {k + 2 : k \in FailureRecvs(txs[i])}

\* C5, amended: an INVITE client transaction delivers the first 3xx-6xx
\* response it receives and then hands one ACK to the transport; every
\* retransmission of it received in Completed causes one more ACK and is not
\* delivered; each ACK carries the INVITE's branch, the transport gets exactly
\* one ACK per 3xx-6xx response received, and none for 1xx or 2xx.
C5_AckPerFailureResponse ==
    /\ \A i \in 1..Len(txs) :
          IF IsInviteTx(txs[i])
          THEN /\ \A k \in FailureRecvs(txs[i]) :
                     IF txs[i].hist[k].st = "Completed"
                     THEN AckAt(txs[i], k + 1)
                     ELSE DeliveredThenAcked(txs[i], k)
               /\ Cardinality(AckSends(txs[i])) = Cardinality(FailureRecvs(txs[i]))
          ELSE AckSends(txs[i]) = {}
    /\ Len(SelectSeq(OutMsgs, IsAck)) = NumFailureRecvs(Len(txs))
    /\ \A k \in 1..Len(OutMsgs) :
          IsAck(OutMsgs[k]) =>
              \E i \in 1..Len(txs) :
                  IsInviteTx(txs[i]) /\ OutMsgs[k] = AckFor(txs[i])

\* an INVITE transaction got a 400 and its retransmission: two ACKs went out
C5_Witness ==
    /\ \E i \in 1..Len(txs) :
          /\ IsInviteTx(txs[i])
          /\ \E k \in FailureRecvs(txs[i]) : txs[i].hist[k].st = "Completed"
          /\ \E k \in FailureRecvs(txs[i]) : txs[i].hist[k].st = "Calling"
    /\ Len(SelectSeq(OutMsgs, IsAck)) = 2

\* C6 as stated: the responses matched to a client transaction are delivered
\* on its response channel in the order the transport delivered them, each
\* exactly once and unmodified.
C6_AllMatchedDelivered ==
    \A i \in 1..Len(txs) : Msgs(Delivered(txs[i])) = Msgs(Received(txs[i]))

WhileActive(e) == e.st \in {"Calling", "Trying", "Proceeding"}

\* C6, amended: the responses delivered on a client transaction's response
\* channel are the responses it received before its first final response
\* and that final response (those received in Calling, Trying or
\* Proceeding), in the order the transport delivered them, each exactly once
\* and unmodified; a response matched after the final one is not delivered.
C6_DeliveredInOrder ==
    \A i \in 1..Len(txs) :
        /\ Msgs(Delivered(txs[i])) = Msgs(SelectSeq(Received(txs[i]), WhileActive))
        /\ \A k \in 1..Len(txs[i].hist) :
              txs[i].hist[k].ev = "deliver" =>
                  /\ txs[i].hist[k - 1].ev = "recv"
                  /\ txs[i].hist[k - 1].msg = txs[i].hist[k].msg

\* an INVITE transaction delivered 100 Trying and then 200 OK
C6_Witness ==
    \E i \in 1..Len(txs) :
        /\ IsInviteTx(txs[i])
        /\ Msgs(Delivered(txs[i])) =
              <<Response(100, "b1", "INVITE", NoHeaders),
                Response(200, "b1", "INVITE", NoHeaders)>>

\* a transaction is live under the key of req
KeyIsLive(req) ==
    \E i \in 1..Len(txs) :
        txs[i].state # "Terminated" /\ txs[i].key = <<req.branch, req.method>>

\* the step created one client transaction for req and handed req to the
\* transport
CreatedOneTx(req) ==
    /\ Len(txs') = Len(txs) + 1
    /\ SubSeq(txs', 1, Len(txs)) = txs
    /\ txs'[Len(txs')].key = MakeClientTxKey(req)
    /\ txs'[Len(txs')].origin = req
    /\ txs'[Len(txs')].state # "Terminated"
    /\ OutMsgs' = Append(OutMsgs, req)

\* C7 as stated: every request R passed to Layer.Request creates exactly one
\* client transaction, with key MakeClientTxKey(R), and the first message
\* handed to the transport is R itself.
C7_EveryRequestCreatesTx ==
    [][\A req \in UserRequests : LayerRequest(req) => CreatedOneTx(req)]_vars

\* C7, amended: every request R that Layer.Request accepts (the layer is not
\* cancelled and no live transaction has R's key) creates exactly one client
\* transaction, with key MakeClientTxKey(R), and the first message handed to
\* the transport is R itself; a request it rejects creates none and hands
\* nothing to the transport.
C7_AcceptedRequestCreatesTx ==
    [][\A req \in UserRequests :
          LayerRequest(req) =>
              IF txlCancels = 0 /\ ~KeyIsLive(req)
              THEN CreatedOneTx(req) /\ lastCall'.result = "ok"
              ELSE txs' = txs /\ OutMsgs' = OutMsgs /\ lastCall'.result # "ok"]_vars

\* Layer.Request accepted an INVITE: its transaction exists and the INVITE
\* is the first message on the transport
C7_Witness ==
    /\ lastCall.result = "ok"
    /\ lastCall.req.method = "INVITE"
    /\ Len(txs) = 1
    /\ txs[1].origin = lastCall.req
    /\ OutMsgs = <<lastCall.req>>

UniqueLiveKeys ==
    \A i, j \in 1..Len(txs) :
        (i # j /\ txs[i].state # "Terminated" /\ txs[j].state # "Terminated")
            => txs[i].key # txs[j].key

\* C8: no two live transactions share a key, and a Layer.Request whose key
\* is already live fails at once with DuplicateKey and leaves the
\* transactions unchanged (and hands nothing to the transport).
C8_KeysUnique ==
    /\ []UniqueLiveKeys
    /\ [][\A req \in UserRequests :
             (LayerRequest(req) /\ txlCancels = 0 /\ KeyIsLive(req)) =>
                 /\ lastCall'.result = "DuplicateKey"
                 /\ txs' = txs
                 /\ OutMsgs' = OutMsgs]_vars

\* a second INVITE with the key of a live transaction was refused, and the
\* live transaction is as it was created
C8_Witness ==
    /\ lastCall.result = "DuplicateKey"
    /\ lastCall.req.method = "INVITE"
    /\ KeyIsLive(lastCall.req)
    /\ txs = <<NewClientTx(lastCall.req)>>

\* C9: a response from the transport that matches no live client
\* transaction changes no transaction (so it reaches no response channel)
\* and is put exactly once on the Responses() stream; the serve loop takes it
\* from there and only logs a warning: it starts no handler, sends no
\* response and hands nothing to the transport.
C9_StrayResponse ==
    /\ [][\A res \in WireResponses :
             (TxlReceive(res) /\ ~KeyIsLive([branch |-> res.branch, method |-> res.cseq]))
                 => /\ txlResponses' = Append(txlResponses, res)
                    /\ txs' = txs
                    /\ OutMsgs' = OutMsgs]_vars
    /\ [][ServeResponse =>
             /\ txlResponses' = Tail(txlResponses)
             /\ srvLog'.warn = srvLog.warn + 1
             /\ UNCHANGED <<txs, OutMsgs, txlResponded, hgs, hwg, txlRequests,
                            requestHandlers>>]_vars

\* the serve loop logged a stray 200 for a branch no transaction has, with a
\* transaction of another branch live
C9_Witness ==
    /\ srvLog.warn = 1
    /\ txlResponses = <<>>
    /\ nIn = 1
    /\ Len(txs) = 1
    /\ txs[1].hist = <<Event("send", txs[1].origin, InitialState(txs[1].origin))>>

AllTerminated ==
    \A i \in 1..Len(txs) : txs[i].state = "Terminated" /\ txs[i].closed

Extensions == <<"ext1">>

Header(name, value) == [name |-> name, value |-> value]

GetHeaders(msg, name) == SelectSeq(msg.hdrs, LAMBDA h : h.name = name)

AppendHeader(msg, h) == [msg EXCEPT !.hdrs = Append(@, h)]

\* the methods that are keys of Server.requestHandlers
Registered == {m \in Methods : requestHandlers[m] # <<>>}

BaseMethods == <<"INVITE", "ACK", "CANCEL">>

ExtraMethods == {m \in Registered : \A i \in 1..Len(BaseMethods) : BaseMethods[i] # m}

\* the orders in which ranging over a map with the keys S can yield them
MapOrders(S) ==
    {o \in [1..Cardinality(S) -> S] :
        \A i, j \in 1..Cardinality(S) : o[i] = o[j] => i = j}

\* Server.getAllowedMethods, the map ranged over in the given order
GetAllowedMethods(order) == BaseMethods \o order

\* an append that does not look for a header of that name
AppendAlways(msg, name, value) == AppendHeader(msg, Header(name, value))

\* append the header unless the message has one of that name
AppendIfMissing(msg, name, value) ==
    IF Len(GetHeaders(msg, name)) = 0
    THEN AppendHeader(msg, Header(name, value))
    ELSE msg

\* an append that leaves a header of that name as the caller set it
AppendNoOverwrite(msg, name, value) ==
    IF Len(GetHeaders(msg, name)) = 0
    THEN AppendHeader(msg, Header(name, value))
    ELSE msg

\* append the header, or overwrite the first one of that name
AppendOrOverwrite(msg, name, value) ==
    IF Len(GetHeaders(msg, name)) = 0
    THEN AppendHeader(msg, Header(name, value))
    ELSE LET first == CHOOSE i \in 1..Len(msg.hdrs) :
                        /\ msg.hdrs[i].name = name
                        /\ \A j \in 1..(i - 1) : msg.hdrs[j].name # name
         IN  [msg EXCEPT !.hdrs[first].value = value]

AutoAppendRequestMethods == {"INVITE", "REGISTER", "REFER", "NOTIFY"}

AutoAppendResponseMethods == {"OPTIONS"}

\* Server.prepareRequest
PrepareRequest(req, methods) ==
    LET r == IF req.method \in AutoAppendRequestMethods
             THEN AppendIfMissing(AppendIfMissing(req, "Allow", methods),
                                  "Supported", Extensions)
             ELSE req
    IN  AppendIfMissing(r, "User-Agent", <<"GoSIP">>)

\* Server.prepareResponse
PrepareResponse(res, methods) ==
    IF res.cseq # "none" /\ res.cseq \in AutoAppendResponseMethods
    THEN AppendOrOverwrite(AppendOrOverwrite(res, "Allow", methods),
                           "Supported", Extensions)
    ELSE res

\* sip.NewResponseFromRequest: a response to req, its CSeq that of req
NewResponseFromRequest(req, status) ==
    Response(status, req.branch, req.method, NoHeaders)

RECURSIVE NumHandlers(_, _)
NumHandlers(table, todo) ==
    IF todo = {} THEN 0
    ELSE LET m == CHOOSE x \in todo : TRUE
         IN  Len(table[m]) + NumHandlers(table, todo \ {m})

\* the calls made on the server so far: OnRequest, inbound requests,
\* Request/Respond and Shutdown
Calls == NumHandlers(requestHandlers, Methods) + nReqIn + nApi + nShut

\* a shuttingDown that never sees a shutdown
ShuttingDownNever == FALSE

\* Server.shuttingDown
ShuttingDown == inShutdown # 0

(***************************************************************************)
(* Transaction and transport layer, towards the server.                    *)
(***************************************************************************)
\* the requests the transaction layer emits on Requests()
InboundRequests == {Request(m, "b1", NoHeaders) : m \in {"INVITE", "ACK", "OPTIONS"}}

\* the responses a caller passes to Server.Respond
UserResponses == {Response(200, "b1", m, NoHeaders) : m \in {"INVITE", "OPTIONS"}}

\* a request arrives that starts a server transaction: it is emitted on
\* Requests()
TxlEmitRequest(req) ==
    /\ ~txlDone
    /\ nReqIn < MaxReqIn
    /\ Calls < MaxCalls
    /\ nReqIn' = nReqIn + 1
    /\ txlRequests' = Append(txlRequests, req)
    /\ UNCHANGED <<txVars, tpVars, tpcVars, txlResponded, srvLog, requestHandlers,
                   hVars, serveVars, shutVars, apiVars>>
    /\ UNCHANGED ioVars

\* Layer.Respond(res)
TxlRespond(res) == txlResponded' = Append(txlResponded, res)

\* the transport layer's Cancel()
TpCancel == tpCancels' = tpCancels + 1

\* the transport layer closed its connections: its Done fires
TpDone ==
    /\ tpCancels > 0
    /\ ~tpDone
    /\ tpDone' = TRUE
    /\ UNCHANGED <<txVars, tpVars, tpCancels, reqVars, txlResponded, srvLog,
                   requestHandlers, hVars, serveVars, shutVars, apiVars>>
    /\ UNCHANGED ioVars

(***************************************************************************)
(* Server.OnRequest.                                                       *)
(***************************************************************************)
\* &h == &handler: the addresses of two distinct local variables
SameHandler(h, handler) == FALSE

OnRequest(method, handler) ==
    /\ NumHandlers(requestHandlers, Methods) < MaxHandlers
    /\ Calls < MaxCalls
    /\ IF \E i \in 1..Len(requestHandlers[method]) :
             SameHandler(requestHandlers[method][i], handler)
       THEN UNCHANGED requestHandlers
       ELSE requestHandlers' = [requestHandlers EXCEPT ![method] = Append(@, handler)]
    /\ UNCHANGED <<txVars, tpVars, tpcVars, reqVars, txlResponded, srvLog, hVars,
                   serveVars, shutVars, apiVars>>
    /\ UNCHANGED ioVars

(***************************************************************************)
(* Server.serve and Server.handleRequest.                                  *)
(***************************************************************************)
\* case req := <-srv.tx.Requests()
ServeRequest ==
    /\ servePc = "select"
    /\ txlRequests # <<>>
    /\ txlRequests' = Tail(txlRequests)
    /\ serveReq' = Head(txlRequests)
    /\ servePc' = "spawn"
    /\ UNCHANGED <<txVars, tpVars, tpcVars, nReqIn, txlResponded, srvLog,
                   requestHandlers, hVars, shutVars, apiVars>>
    /\ UNCHANGED ioVars

NewGoroutine(req) == [req |-> req, pc |-> "start", snap |-> <<>>, called |-> <<>>]

\* srv.hwg.Add(1); go srv.handleRequest(req)
ServeSpawn ==
    /\ servePc = "spawn"
    /\ hwg' = hwg + 1
    /\ hgs' = Append(hgs, NewGoroutine(serveReq))
    /\ serveReq' = NoMessage
    /\ servePc' = "select"
    /\ UNCHANGED <<txVars, tpVars, tpcVars, reqVars, txlResponded, srvLog,
                   requestHandlers, shutVars, apiVars>>
    /\ UNCHANGED ioVars

\* handlers, ok := srv.requestHandlers[req.Method()]
Lookup(table, req) == table[req.method]

\* handleRequest reads the handler table; an ACK nobody handles is ignored
HandleLookup(g) ==
    /\ g \in 1..Len(hgs)
    /\ hgs[g].pc = "start"
    /\ LET snap == Lookup(requestHandlers, hgs[g].req)
       IN  IF snap # <<>>
           THEN /\ hgs' = [hgs EXCEPT ![g].pc = "call", ![g].snap = snap]
                /\ hwg' = hwg
           ELSE IF hgs[g].req.method = "ACK"
                THEN /\ hgs' = [hgs EXCEPT ![g].pc = "done"]
                     /\ hwg' = hwg - 1
                ELSE /\ hgs' = [hgs EXCEPT ![g].pc = "respond"]
                     /\ hwg' = hwg
    /\ UNCHANGED <<txVars, tpVars, tpcVars, reqVars, txlResponded, srvLog,
                   requestHandlers, serveVars, shutVars, apiVars>>
    /\ UNCHANGED ioVars

\* a loop that calls the first handler every time
NextHandlerFirst(gr) == gr.snap[1]

\* the handler the loop over the handlers calls next
NextHandler(gr) == gr.snap[Len(gr.called) + 1]

\* handler(req), for the next handler; after the last one handleRequest returns
HandleCall(g) ==
    /\ g \in 1..Len(hgs)
    /\ hgs[g].pc = "call"
    /\ LET called == Append(hgs[g].called, NextHandler(hgs[g]))
           last == Len(called) = Len(hgs[g].snap)
       IN  /\ hgs' = [hgs EXCEPT ![g].called = called,
                                 ![g].pc = IF last THEN "done" ELSE "call"]
           /\ hwg' = IF last THEN hwg - 1 ELSE hwg
    /\ UNCHANGED <<txVars, tpVars, tpcVars, reqVars, txlResponded, srvLog,
                   requestHandlers, serveVars, shutVars, apiVars>>
    /\ UNCHANGED ioVars

\* srv.Respond(405) of handleRequest: the shuttingDown check
HandleRespondCheck(g) ==
    /\ g \in 1..Len(hgs)
    /\ hgs[g].pc = "respond"
    /\ IF ShuttingDown
       THEN /\ hgs' = [hgs EXCEPT ![g].pc = "done"]
            /\ hwg' = hwg - 1
            /\ srvLog' = [srvLog EXCEPT !.error = @ + 1]
       ELSE /\ hgs' = [hgs EXCEPT ![g].pc = "send"]
            /\ UNCHANGED <<hwg, srvLog>>
    /\ UNCHANGED <<txVars, tpVars, tpcVars, reqVars, txlResponded,
                   requestHandlers, serveVars, shutVars, apiVars>>
    /\ UNCHANGED ioVars

\* srv.Respond(405) of handleRequest: srv.tx.Respond(srv.prepareResponse(res))
HandleRespondSend(g) ==
    /\ g \in 1..Len(hgs)
    /\ hgs[g].pc = "send"
    /\ \E order \in MapOrders(ExtraMethods) :
          TxlRespond(PrepareResponse(NewResponseFromRequest(hgs[g].req, 405),
                                     GetAllowedMethods(order)))
    /\ hgs' = [hgs EXCEPT ![g].pc = "done"]
    /\ hwg' = hwg - 1
    /\ UNCHANGED <<txVars, tpVars, tpcVars, reqVars, srvLog, requestHandlers,
                   serveVars, shutVars, apiVars>>
    /\ UNCHANGED ioVars

(***************************************************************************)
(* Server.Request and Server.Respond, called by the user of the server.    *)
(***************************************************************************)
Result(op, err) == [op |-> op, err |-> err]

\* Server.Request: the shuttingDown check
RequestCheck(req) ==
    /\ apiPc = "idle"
    /\ nApi < MaxApi
    /\ Calls < MaxCalls
    /\ Len(txs) < MaxTx
    /\ nApi' = nApi + 1
    /\ IF ShuttingDown
       THEN /\ apiResult' = Result("Request", "stopped")
            /\ UNCHANGED <<apiPc, apiMsg>>
       ELSE /\ apiPc' = "request"
            /\ apiMsg' = req
            /\ UNCHANGED apiResult
    /\ UNCHANGED <<txVars, tpVars, tpcVars, reqVars, txlResponded, srvLog,
                   requestHandlers, hVars, serveVars, shutVars>>
    /\ UNCHANGED ioVars

\* Server.Request: srv.tx.Request(srv.prepareRequest(req))
RequestSend ==
    /\ apiPc = "request"
    /\ \E order \in MapOrders(ExtraMethods) :
          TxlRequest(PrepareRequest(apiMsg, GetAllowedMethods(order)))
    /\ apiResult' = Result("Request", lastCall'.result)
    /\ apiPc' = "idle"
    /\ apiMsg' = NoMessage
    /\ UNCHANGED nApi
    /\ UNCHANGED <<tpcVars, reqVars, txlResponded, srvLog, requestHandlers, hVars,
                   serveVars, shutVars>>
    /\ UNCHANGED ioVars

\* Server.Respond: the shuttingDown check
RespondCheck(res) ==
    /\ apiPc = "idle"
    /\ nApi < MaxApi
    /\ Calls < MaxCalls
    /\ Len(txlResponded) < MaxResp
    /\ nApi' = nApi + 1
    /\ IF ShuttingDown
       THEN /\ apiResult' = Result("Respond", "stopped")
            /\ UNCHANGED <<apiPc, apiMsg>>
       ELSE /\ apiPc' = "respond"
            /\ apiMsg' = res
            /\ UNCHANGED apiResult
    /\ UNCHANGED <<txVars, tpVars, tpcVars, reqVars, txlResponded, srvLog,
                   requestHandlers, hVars, serveVars, shutVars>>
    /\ UNCHANGED ioVars

\* Server.Respond: srv.tx.Respond(srv.prepareResponse(res))
RespondSend ==
    /\ apiPc = "respond"
    /\ \E order \in MapOrders(ExtraMethods) :
          TxlRespond(PrepareResponse(apiMsg, GetAllowedMethods(order)))
    /\ apiResult' = Result("Respond", "ok")
    /\ apiPc' = "idle"
    /\ apiMsg' = NoMessage
    /\ UNCHANGED nApi
    /\ UNCHANGED <<txVars, tpVars, tpcVars, reqVars, srvLog, requestHandlers,
                   hVars, serveVars, shutVars>>
    /\ UNCHANGED ioVars

(***************************************************************************)
(* Server.Shutdown.                                                        *)
(***************************************************************************)
\* if srv.shuttingDown() { return }
ShutdownCheck(p) ==
    /\ shutPc[p] = "idle"
    /\ nShut < MaxShut
    /\ Calls < MaxCalls
    /\ nShut' = nShut + 1
    /\ shutPc' = [shutPc EXCEPT ![p] = IF ShuttingDown THEN "idle" ELSE "add"]
    /\ UNCHANGED <<txVars, tpVars, tpcVars, reqVars, txlResponded, srvLog,
                   requestHandlers, hVars, serveVars, inShutdown, apiVars>>
    /\ UNCHANGED ioVars

\* atomic.AddInt32(&srv.inShutdown, 1); srv.tx.Cancel()
ShutdownCancelTx(p) ==
    /\ shutPc[p] = "add"
    /\ inShutdown' = inShutdown + 1
    /\ TxlCancel
    /\ shutPc' = [shutPc EXCEPT ![p] = "waitTx"]
    /\ UNCHANGED <<tpVars, tpcVars, reqVars, txlResponded, srvLog,
                   requestHandlers, hVars, serveVars, nShut, apiVars>>
    /\ UNCHANGED ioVars

\* a Shutdown that cancels the transport without waiting for the
\* transaction layer
ShutdownCancelTpNoWait(p) ==
    /\ shutPc[p] = "waitTx"
    /\ TpCancel
    /\ shutPc' = [shutPc EXCEPT ![p] = "waitTp"]
    /\ UNCHANGED <<txVars, tpVars, tpDone, reqVars, txlResponded, srvLog,
                   requestHandlers, hVars, serveVars, inShutdown, nShut, apiVars>>
    /\ UNCHANGED ioVars

\* <-srv.tx.Done(); srv.tp.Cancel()
ShutdownCancelTp(p) ==
    /\ shutPc[p] = "waitTx"
    /\ txlDone
    /\ TpCancel
    /\ shutPc' = [shutPc EXCEPT ![p] = "waitTp"]
    /\ UNCHANGED <<txVars, tpVars, tpDone, reqVars, txlResponded, srvLog,
                   requestHandlers, hVars, serveVars, inShutdown, nShut, apiVars>>
    /\ UNCHANGED ioVars

\* <-srv.tp.Done(); srv.hwg.Wait(); and the deferred
\* atomic.AddInt32(&srv.inShutdown, -1)
ShutdownWait(p) ==
    /\ shutPc[p] = "waitTp"
    /\ tpDone
    /\ hwg = 0
    /\ inShutdown' = inShutdown - 1
    /\ shutPc' = [shutPc EXCEPT ![p] = "idle"]
    /\ UNCHANGED <<txVars, tpVars, tpcVars, reqVars, txlResponded, srvLog,
                   requestHandlers, hVars, serveVars, nShut, apiVars>>
    /\ UNCHANGED ioVars

(***************************************************************************)
(* The server over the transaction layer.                                  *)
(***************************************************************************)
Next ==
    \/ \E m \in {"INVITE", "OPTIONS"}, h \in Handlers : OnRequest(m, h)
    \/ \E req \in InboundRequests : TxlEmitRequest(req)
    \/ ServeRequest
    \/ ServeSpawn
    \/ \E g \in 1..MaxReqIn : HandleLookup(g)
    \/ \E g \in 1..MaxReqIn : HandleCall(g)
    \/ \E g \in 1..MaxReqIn : HandleRespondCheck(g)
    \/ \E g \in 1..MaxReqIn : HandleRespondSend(g)
    \/ \E req \in UserRequests : RequestCheck(req)
    \/ RequestSend
    \/ \E res \in UserResponses : RespondCheck(res)
    \/ RespondSend
    \/ \E p \in ShutCallers : ShutdownCheck(p)
    \/ \E p \in ShutCallers : ShutdownCancelTx(p)
    \/ \E p \in ShutCallers : ShutdownCancelTp(p)
    \/ \E p \in ShutCallers : ShutdownWait(p)
    \/ \E i \in 1..MaxTx : CancelTx(i)
    \/ LayerDone
    \/ TpDone

Spec == Init /\ [][Next]_vars

(***************************************************************************)
(* Properties of the server.                                               *)
(***************************************************************************)
\* the step hands nothing to the transaction layer
NothingHandedOver == UNCHANGED <<txs, OutMsgs, txlResponded, lastCall>>

\* C1: a call of Server.Request or Server.Respond that finds the in-shutdown
\* counter non-zero returns an error and hands nothing to the transaction
\* layer: no client transaction is created and no response is sent.
C1_RejectedWhileShuttingDown ==
    /\ [][\A req \in UserRequests :
             (RequestCheck(req) /\ inShutdown # 0) =>
                 /\ apiResult' = [op |-> "Request", err |-> "stopped"]
                 /\ apiPc' = "idle"
                 /\ NothingHandedOver]_vars
    /\ [][\A res \in UserResponses :
             (RespondCheck(res) /\ inShutdown # 0) =>
                 /\ apiResult' = [op |-> "Respond", err |-> "stopped"]
                 /\ apiPc' = "idle"
                 /\ NothingHandedOver]_vars

\* a Request call was refused while a Shutdown was waiting for the
\* transaction layer
C1_Witness ==
    /\ inShutdown # 0
    /\ apiResult = [op |-> "Request", err |-> "stopped"]
    /\ txs = <<>>
    /\ OutMsgs = <<>>

\* the step is a return of a Shutdown call of p
ShutdownReturns(p) ==
    \/ ShutdownCheck(p) /\ shutPc'[p] = "idle"
    \/ ShutdownWait(p)

\* C2 as stated: Shutdown cancels the transaction layer first, cancels the
\* transport layer only after the transaction layer signalled Done, and
\* returns only after the transport layer signalled Done and every handler
\* counted in the wait group returned.
C2_ShutdownReturnsAfterDone ==
    [][\A p \in ShutCallers :
          /\ ShutdownCancelTp(p) => txlCancels > 0 /\ txlDone
          /\ ShutdownReturns(p) => txlDone /\ tpCancels > 0 /\ tpDone /\ hwg = 0]_vars

\* C2, amended: a Shutdown call that finds no shutdown in progress cancels
\* the transaction layer first, cancels the transport layer only after the
\* transaction layer signalled Done, and returns only after the transport
\* layer signalled Done and every handler counted in the wait group
\* returned; a call that finds a shutdown in progress returns at once and
\* cancels nothing.
C2_ShutdownOrder ==
    /\ [][\A p \in ShutCallers : ShutdownCancelTx(p) => txlCancels' = txlCancels + 1]_vars
    /\ [][\A p \in ShutCallers :
             ShutdownCancelTp(p) =>
                 txlCancels > 0 /\ txlDone /\ tpCancels' = tpCancels + 1]_vars
    /\ [][\A p \in ShutCallers :
             ShutdownWait(p) => txlDone /\ tpCancels > 0 /\ tpDone /\ hwg = 0]_vars
    /\ [][\A p \in ShutCallers :
             ShutdownCheck(p) =>
                 IF inShutdown # 0
                 THEN shutPc'[p] = "idle" /\ UNCHANGED <<txlCancels, tpCancels, inShutdown>>
                 ELSE shutPc'[p] # "idle"]_vars

\* a Shutdown call ran to its end after a handler had run: both layers are
\* done, no handler is running and the counter is back at zero
C2_Witness ==
    /\ \A p \in ShutCallers : shutPc[p] = "idle"
    /\ txlDone
    /\ tpDone
    /\ inShutdown = 0
    /\ hwg = 0
    /\ \E g \in 1..Len(hgs) : hgs[g].pc = "done" /\ hgs[g].called # <<>>

IsPrefix(a, b) == Len(a) <= Len(b) /\ SubSeq(b, 1, Len(a)) = a

\* C3: for a request emitted on Requests(), the server calls the handlers
\* registered for the request's method when it looks them up, once per
\* registration and in registration order, and no others; one registered
\* INVITE handler and one inbound INVITE give one call of that handler.
C3_HandlersCalledInOrder ==
    /\ [][\A g \in 1..MaxReqIn :
             HandleLookup(g) => hgs'[g].snap = requestHandlers[hgs[g].req.method]]_vars
    /\ [](\A g \in 1..Len(hgs) :
             /\ IsPrefix(hgs[g].called, hgs[g].snap)
             /\ IsPrefix(hgs[g].snap, requestHandlers[hgs[g].req.method])
             /\ hgs[g].pc = "done" => hgs[g].called = hgs[g].snap
             /\ hgs[g].pc \in {"start", "respond", "send"} => hgs[g].called = <<>>)

\* two INVITE handlers, registered h2 then h1, were called in that order for an
\* inbound INVITE
C3_Witness ==
    /\ requestHandlers["INVITE"] = <<"h2", "h1">>
    /\ \E g \in 1..Len(hgs) :
          /\ hgs[g].pc = "done"
          /\ hgs[g].req.method = "INVITE"
          /\ hgs[g].called = <<"h2", "h1">>

\* the 405 responses sent for req that carry an Allow header
Allowed405(req) ==
    {k \in 1..Len(txlResponded) :
        /\ txlResponded[k].status = 405
        /\ txlResponded[k].branch = req.branch
        /\ txlResponded[k].cseq = req.method
        /\ GetHeaders(txlResponded[k], "Allow") # <<>>}

\* C4: once the server has handled an inbound request whose method has no
\* registered handler, it has sent a 405 response that carries an Allow
\* header if the method is not ACK, and no response if it is ACK.
C4_405WithAllow ==
    \A g \in 1..Len(hgs) :
        (hgs[g].pc = "done" /\ hgs[g].snap = <<>>) =>
            IF hgs[g].req.method = "ACK"
            THEN \A k \in 1..Len(txlResponded) : txlResponded[k].cseq # "ACK"
            ELSE Allowed405(hgs[g].req) # {}

(***************************************************************************)
(* Server.Request and Server.Respond on messages that come with headers    *)
(* of their own, over the handler tables OnRequest builds.                 *)
(***************************************************************************)
\* the headers a caller may have set on a request: any of Allow, Supported
\* and User-Agent
RequestHeaders ==
    {a \o sup \o ua :
        a \in {<<>>, <<Header("Allow", <<"BYE">>)>>},
        sup \in {<<>>, <<Header("Supported", <<"x">>)>>},
        ua \in {<<>>, <<Header("User-Agent", <<"UA">>)>>}}

HdrRequests ==
    {Request(m, "b1", h) :
        m \in {"INVITE", "REGISTER", "REFER", "NOTIFY", "OPTIONS"},
        h \in RequestHeaders}

\* the headers a caller may have set on a response: none, an Allow and a
\* Contact, or two Allow header lines around a Contact
ResponseHeaders ==
    {<<>>,
     <<Header("Allow", <<"BYE">>), Header("Contact", <<"c">>)>>,
     <<Header("Allow", <<"BYE">>), Header("Contact", <<"c">>),
       Header("Allow", <<"INFO">>)>>,
     <<Header("Supported", <<"x">>)>>}

HdrResponses ==
    {Response(200, "b1", c, h) : c \in {"OPTIONS", "INVITE"}, h \in ResponseHeaders}

NextHdr ==
    \/ \E m \in {"INVITE", "OPTIONS", "REGISTER"} : OnRequest(m, "h1")
    \/ \E req \in HdrRequests : RequestCheck(req)
    \/ RequestSend
    \/ \E res \in HdrResponses : RespondCheck(res)
    \/ RespondSend

SpecHdr == Init /\ [][NextHdr]_vars

(***************************************************************************)
(* Properties of the headers the server adds.                              *)
(***************************************************************************)
\* v lists INVITE, ACK, CANCEL and then every other method with a registered
\* handler, each once
IsAllowList(v) ==
    LET others == {m \in Methods : requestHandlers[m] # <<>>}
                      \ {"INVITE", "ACK", "CANCEL"}
    IN  /\ Len(v) = 3 + Cardinality(others)
        /\ SubSeq(v, 1, 3) = <<"INVITE", "ACK", "CANCEL">>
        /\ {v[i] : i \in 4..Len(v)} = others

Named(msg, names) == SelectSeq(msg.hdrs, LAMBDA h : h.name \in names)

NotNamed(msg, names) == SelectSeq(msg.hdrs, LAMBDA h : h.name \notin names)

\* C11: a response with CSeq method OPTIONS that goes through
\* Server.Respond is handed to the transaction layer with an Allow header (the
\* first one, if the caller set several) whose value lists INVITE, ACK,
\* CANCEL and then every other method with a registered handler, each once,
\* whatever value the caller had set there, its other headers apart from
\* Supported as they were; a response with another CSeq method is handed
\* over unchanged.
C11_OptionsAllow ==
    [][RespondSend =>
          LET in == apiMsg
              out == txlResponded'[Len(txlResponded')]
              allowIn == GetHeaders(in, "Allow")
              allowOut == GetHeaders(out, "Allow")
          IN  /\ Len(txlResponded') = Len(txlResponded) + 1
              /\ IF in.cseq = "OPTIONS"
                 THEN /\ [out EXCEPT !.hdrs = in.hdrs] = in
                      /\ allowOut # <<>>
                      /\ IsAllowList(allowOut[1].value)
                      /\ Tail(allowOut) = (IF allowIn = <<>> THEN <<>> ELSE Tail(allowIn))
                      /\ NotNamed(out, {"Allow", "Supported"})
                            = NotNamed(in, {"Allow", "Supported"})
                 ELSE out = in]_vars

\* with handlers for REGISTER and OPTIONS registered, a 200 for OPTIONS that
\* came with Allow: BYE and a Contact left with the full list in its Allow
C11_Witness ==
    /\ apiResult = [op |-> "Respond", err |-> "ok"]
    /\ txlResponded # <<>>
    /\ txlResponded[1].cseq = "OPTIONS"
    /\ txlResponded[1].hdrs[1] =
          Header("Allow", <<"INVITE", "ACK", "CANCEL", "REGISTER", "OPTIONS">>)
    /\ txlResponded[1].hdrs[2] = Header("Contact", <<"c">>)

\* the defaults Server.Request owes a request: the names of the headers it
\* has to append, in the order it appends them
MissingDefaults(req) ==
    LET auto == req.method \in {"INVITE", "REGISTER", "REFER", "NOTIFY"}
        need(name) == IF GetHeaders(req, name) = <<>> THEN <<name>> ELSE <<>>
    IN  (IF auto THEN need("Allow") \o need("Supported") ELSE <<>>)
            \o need("User-Agent")

\* C12: the request Server.Request hands to the transaction layer is the
\* caller's request with its headers as they were, followed by the defaults
\* that were missing and no others: Allow (the allowed-method list) and
\* Supported (the configured extensions) for INVITE, REGISTER, REFER and
\* NOTIFY, User-Agent for every request; no header is there twice because of
\* it, and preparing the prepared request again changes nothing.
C12_DefaultsOnlyWhenMissing ==
    [][RequestSend =>
          LET in == apiMsg
              out == lastCall'.req
              added == SubSeq(out.hdrs, Len(in.hdrs) + 1, Len(out.hdrs))
          IN  /\ [out EXCEPT !.hdrs = in.hdrs] = in
              /\ Len(out.hdrs) >= Len(in.hdrs)
              /\ SubSeq(out.hdrs, 1, Len(in.hdrs)) = in.hdrs
              /\ [k \in 1..Len(added) |-> added[k].name] = MissingDefaults(in)
              /\ \A k \in 1..Len(added) :
                    CASE added[k].name = "Allow" -> IsAllowList(added[k].value)
                      [] added[k].name = "Supported" -> added[k].value = Extensions
                      [] OTHER -> added[k].value = <<"GoSIP">>
              /\ \A name \in {"Allow", "Supported", "User-Agent"} :
                    Len(GetHeaders(out, name)) <= 1
              /\ \A order \in MapOrders(ExtraMethods) :
                    PrepareRequest(out, GetAllowedMethods(order)) = out]_vars

\* a REFER that came with a Supported header only left with Allow and
\* User-Agent appended after it
C12_Witness ==
    /\ apiResult = [op |-> "Request", err |-> "ok"]
    /\ lastCall.req.method = "REFER"
    /\ lastCall.req.hdrs =
          <<Header("Supported", <<"x">>),
            Header("Allow", <<"INVITE", "ACK", "CANCEL", "REGISTER">>),
            Header("User-Agent", <<"GoSIP">>)>>

(***************************************************************************)
(* The connection and its callers.                                         *)
(***************************************************************************)
SpecConn == Init /\ [][NextConn]_vars

ConnResults == {connRet[c] : c \in ConnCallers} \ {NoResult}

\* C13: writes on one connection are serialized: of the concurrent Write and
\* WriteTo calls on the connection, at most one is inside the socket's write
\* at any instant.
C13_OneWriterInSocket ==
    connObj # NoConnection => Cardinality(connBase.writers) <= 1

\* C14: Close is idempotent: every call of Close returns nil, a call on an
\* already closed connection included, and the socket is closed once only.
C14_CloseIdempotent ==
    connObj # NoConnection =>
        /\ connBase.closes <= 1
        /\ \A r \in ConnResults : r.op = "Close" => r.err = NoError

\* the remote address an operation's error reports
ErrorRemote(r) ==
    CASE r.op = "ReadFrom" -> r.raddr
      [] r.op = "WriteTo" -> PeerAddr
      [] OTHER -> RemoteAddr(connObj)

OpName(op) ==
    CASE op \in {"Read", "ReadFrom"} -> "read"
      [] op \in {"Write", "WriteTo"} -> "write"
      [] OTHER -> "close"

\* C15: a call that succeeds returns a nil error, and every call that fails
\* returns a ConnectionError with the cause, the name of the operation, the
\* network, the remote address, the local address and the connection.
C15_FailuresWrapped ==
    \A r \in ConnResults :
        IF r.base = "ok"
        THEN r.err = NoError
        ELSE r.err = ConnectionError(r.base, OpName(r.op),
                         Network(connObj, connBase),
                         AddrString(ErrorRemote(r)),
                         AddrString(LocalAddr(connObj)),
                         ConnString(connObj, connBase))

\* C16: a connection is streamed exactly when its socket is not a packet
\* socket, its network is the upper-cased network name, its local and remote
\* addresses are those its socket had at construction whatever was read or
\* written since, and ReadFrom returns the datagram's peer address without
\* storing it.
C16_ConstructionFixesIdentity ==
    connObj # NoConnection =>
        /\ Streamed(connObj) = (connBase.kind # "udp")
        /\ Network(connObj, connBase) \in {"UDP", "TCP"}
        /\ Network(connObj, connBase) = "UDP" <=> connBase.kind = "udp"
        /\ \E b \in BaseSockets :
              /\ b.kind = connBase.kind
              /\ LocalAddr(connObj) = b.laddr
              /\ RemoteAddr(connObj) = b.raddr
        /\ \A r \in ConnResults :
              (r.op = "ReadFrom" /\ r.base = "ok") => r.raddr = PeerAddr

C16_Witness ==
    /\ connObj # NoConnection
    /\ connBase.kind = "udp"
    /\ connBase.rdl /\ connBase.wdl
    /\ RemoteAddr(connObj) = NilAddr
    /\ \E r \in ConnResults : r.op = "ReadFrom" /\ r.base = "ok" /\ r.raddr = PeerAddr
    /\ \E r \in ConnResults : r.op = "WriteTo" /\ r.base = "ok"

(***************************************************************************)
(* The parser buffer, its writer and its reader.                           *)
(***************************************************************************)
SpecPb == Init /\ [][NextPb]_vars

\* the position of the first CRLF of data, 0 when it has none
FirstCRLF(data) ==
    IF \E i \in 1..(Len(data) - 1) : data[i] = CR /\ data[i + 1] = LF
    THEN CHOOSE i \in 1..(Len(data) - 1) :
             /\ data[i] = CR /\ data[i + 1] = LF
             /\ \A j \in 1..(i - 1) : ~(data[j] = CR /\ data[j + 1] = LF)
    ELSE 0

\* the bytes written that no call before the one starting at offset start
\* consumed
Unconsumed(start) == Drop(pbWritten, start)

\* C17: a NextLine that returns a line returns the bytes before the first
\* CRLF of the unconsumed bytes and consumes them and that CRLF only, and no
\* NextLine is still waiting for bytes when the unconsumed bytes written
\* hold a CRLF and it has read them all; bare and repeated CRs included.
C17_NextLineFirstCRLF ==
    /\ (pbRet.op = "NextLine" /\ pbRet.err = "nil") =>
          LET i == FirstCRLF(Unconsumed(pbRet.start))
          IN  /\ i > 0
              /\ pbRet.response = SubSeq(Unconsumed(pbRet.start), 1, i - 1)
              /\ pbRet.end = pbRet.start + i + 1
    /\ (pbCall # NoCall /\ pbCall.op = "NextLine" /\ ~pbClosed) =>
          ~(/\ FirstCRLF(Unconsumed(pbCall.start)) > 0
            /\ pbConsumed = Len(pbWritten))

\* C18: a NextChunk(n) that returns a chunk returns the next n unconsumed
\* bytes in the order written and consumes exactly those; the bytes still to
\* be read are always the bytes written after the last one consumed, so the
\* next call starts there; NextChunk(0) returns the empty string at once.
C18_NextChunkExactlyN ==
    /\ (pbRet.op = "NextChunk" /\ pbRet.err = "nil") =>
          /\ Len(Unconsumed(pbRet.start)) >= pbRet.n
          /\ pbRet.response = SubSeq(Unconsumed(pbRet.start), 1, pbRet.n)
          /\ pbRet.end = pbRet.start + pbRet.n
    /\ (pbRet.op = "NextChunk" /\ pbRet.n = 0) =>
          pbRet.err = "nil" /\ pbRet.response = <<>>
    /\ (pbCall # NoCall /\ pbCall.op = "NextChunk") =>
          /\ pbCall.n > 0
          /\ Len(pbCall.buffer) < pbCall.n
          /\ pbConsumed = pbCall.start + Len(pbCall.buffer)
    /\ pbCall = NoCall => pbConsumed = IF pbRet = NoReturn THEN 0 ELSE pbRet.end
    /\ ~pbClosed => pbReader \o pbPipe = Unconsumed(pbConsumed)

C18_Witness ==
    /\ pbRet.op = "NextChunk" /\ pbRet.err = "nil"
    /\ pbRet.n = 2 /\ pbRet.start = 1
    /\ pbRet.response = <<LF, "a">>
    /\ pbRet.end < Len(pbWritten)
    /\ nPbCalls = 2
    /\ pbPipe # <<>>

\* C19: a NextLine called after Stop returns an error, whatever was written
\* before the Stop.
C19_NextLineFailsAfterStop ==
    (pbRet.op = "NextLine" /\ pbRet.stopped) => pbRet.err # "nil"

\* the handlers of a list
Bound(handlers) == {handlers[i] : i \in 1..Len(handlers)}

\* C20: OnRequest leaves the handler table as it is when the handler is
\* already registered for the method, and otherwise appends the handler to
\* the method's list: a list only ever grows by a handler it did not hold.
C20_NoHandlerBoundTwice ==
    [][\A m \in Methods :
          requestHandlers'[m] # requestHandlers[m] =>
              \E h \in Handlers :
                  /\ h \notin Bound(requestHandlers[m])
                  /\ requestHandlers'[m] = Append(requestHandlers[m], h)]_vars

\* the parser buffer with a reader that goes on with the call it is in: the
\* steps of a NextLine or NextChunk in progress are taken when they can be,
\* while nothing makes a caller start a new call or stop the buffer
FairSpecPb ==
    /\ SpecPb
    /\ WF_vars(PbFill)
    /\ WF_vars(PbReadString)
    /\ WF_vars(PbReadByte)
    /\ WF_vars(PbRead)

\* a Write has handed its bytes to the buffer and has not returned
WriteInProgress == pbPipe # <<>>

\* C22: Write does not block: a Write in progress returns, whether or not a
\* NextLine or NextChunk is ever called to take its bytes.
C22_WriteReturns == WriteInProgress ~> ~WriteInProgress

(***************************************************************************)
(* The protocol, its workers and the caller of Stop.                       *)
(***************************************************************************)
SpecPr == Init /\ [][NextPr]_vars

ShutdownsReturned ==
    tpCancels - Cardinality({p \in ShutCallers : shutPc[p] = "waitTp"})

\* a Request or Respond call is made in this step
ApiCalled == nApi' = nApi + 1

\* the call made in this step is rejected: it returns the error and hands
\* nothing to the transaction layer
ApiRejected == apiPc' = "idle" /\ apiResult'.err = "stopped"

\* C23: once Shutdown has cancelled the layers, every Request and Respond
\* call is rejected, while the shutdown goes on and ever after it returned.
C23_RejectedForeverAfterShutdown ==
    [][(tpCancels > 0 /\ ApiCalled) => ApiRejected]_vars

\* C24: whatever the Shutdown calls and their interleaving, the transaction
\* layer's Cancel and the transport layer's Cancel are each called at most
\* once.
C24_CancelAtMostOnce == txlCancels <= 1 /\ tpCancels <= 1

\* C25: the serve loop starts no handleRequest goroutine once a Shutdown has
\* returned: every goroutine it starts was counted in the handler wait group
\* before Shutdown's wait ended.
C25_NoHandlerAfterShutdown ==
    [][Len(hgs') > Len(hgs) => ShutdownsReturned = 0]_vars

(***************************************************************************)
(* The server with request handlers that call Shutdown.                    *)
(***************************************************************************)
\* handler(req) of handleRequest, for a handler whose body calls
\* srv.Shutdown(): the call and Shutdown's shuttingDown check, made by the
\* handleRequest goroutine g as caller p
HandlerShutdown(g, p) ==
    /\ g \in 1..Len(hgs)
    /\ hgs[g].pc = "call"
    /\ shutPc[p] = "idle"
    /\ \A o \in 1..Len(hgs) : hgs[o].pc # p
    /\ nShut < MaxShut
    /\ Calls < MaxCalls
    /\ nShut' = nShut + 1
    /\ shutPc' = [shutPc EXCEPT ![p] = IF ShuttingDown THEN "idle" ELSE "add"]
    /\ hgs' = [hgs EXCEPT ![g].pc = p]
    /\ UNCHANGED <<txVars, tpVars, tpcVars, reqVars, txlResponded, srvLog,
                   requestHandlers, hwg, serveVars, inShutdown, apiVars>>
    /\ UNCHANGED ioVars

\* the Shutdown the handler called has returned: the handler goes on
HandlerShutdownReturn(g) ==
    /\ g \in 1..Len(hgs)
    /\ hgs[g].pc \in ShutCallers
    /\ shutPc[hgs[g].pc] = "idle"
    /\ hgs' = [hgs EXCEPT ![g].pc = "call"]
    /\ UNCHANGED <<txVars, tpVars, tpcVars, reqVars, txlResponded, srvLog,
                   requestHandlers, hwg, serveVars, shutVars, apiVars>>
    /\ UNCHANGED ioVars

NextIn ==
    \/ \E m \in {"INVITE", "OPTIONS"}, h \in Handlers : OnRequest(m, h)
    \/ \E req \in InboundRequests : TxlEmitRequest(req)
    \/ ServeRequest
    \/ ServeSpawn
    \/ \E g \in 1..MaxReqIn : HandleLookup(g)
    \/ \E g \in 1..MaxReqIn : HandleCall(g)
    \/ \E g \in 1..MaxReqIn : HandleRespondCheck(g)
    \/ \E g \in 1..MaxReqIn : HandleRespondSend(g)
    \/ \E g \in 1..MaxReqIn, p \in ShutCallers : HandlerShutdown(g, p)
    \/ \E g \in 1..MaxReqIn : HandlerShutdownReturn(g)
    \/ \E p \in ShutCallers : ShutdownCheck(p)
    \/ \E p \in ShutCallers : ShutdownCancelTx(p)
    \/ \E p \in ShutCallers : ShutdownCancelTp(p)
    \/ \E p \in ShutCallers : ShutdownWait(p)
    \/ LayerDone
    \/ TpDone

\* the goroutines of the server and of the layers are scheduled: a Shutdown
\* in progress, the serve loop, the handleRequest goroutines and the layers
\* take the steps they can take; nothing makes the callers call
ServerFairness ==
    /\ WF_vars(\E p \in ShutCallers : ShutdownCancelTx(p))
    /\ WF_vars(\E p \in ShutCallers : ShutdownCancelTp(p))
    /\ WF_vars(\E p \in ShutCallers : ShutdownWait(p))
    /\ WF_vars(LayerDone)
    /\ WF_vars(TpDone)
    /\ WF_vars(ServeRequest)
    /\ WF_vars(ServeSpawn)
    /\ WF_vars(\E g \in 1..MaxReqIn : HandleLookup(g))
    /\ WF_vars(\E g \in 1..MaxReqIn : HandleCall(g))
    /\ WF_vars(\E g \in 1..MaxReqIn : HandleRespondCheck(g))
    /\ WF_vars(\E g \in 1..MaxReqIn : HandleRespondSend(g))

FairSpecIn ==
    /\ Init /\ [][NextIn]_vars
    /\ ServerFairness
    /\ WF_vars(\E g \in 1..MaxReqIn : HandlerShutdownReturn(g))

FairSpec ==
    /\ Spec
    /\ ServerFairness
    /\ WF_vars(\E i \in 1..MaxTx : CancelTx(i))
    /\ WF_vars(RequestSend)
    /\ WF_vars(RespondSend)

\* C26: a Shutdown call returns in the end, the layers signalling Done and
\* the handlers that do not wait for Shutdown returning; also when it is a
\* request handler that calls Shutdown.
C26_ShutdownReturnsInTheEnd ==
    \A p \in ShutCallers : (shutPc[p] # "idle") ~> (shutPc[p] = "idle")

\* C27: once a Shutdown has returned, the serve loop stops in the end.
C27_ServeLoopEnds == (ShutdownsReturned > 0) ~> (servePc = "returned")

====
